---- MODULE Spec2Model ----
(***************************************************************************)
(* A model of the virtual-DOM library of src/src/view.ts (tree model,      *)
(* createElement, detectVirtualDOMDifference, updateElement, the App       *)
(* render scheduler) and of the counter application of src/src/index.ts.   *)
(*                                                                         *)
(* JavaScript values are records tagged by their typeof:                   *)
(*   [t |-> "undefined"], [t |-> "null"], [t |-> "number", v |-> 0],       *)
(*   [t |-> "string", v |-> "a"], [t |-> "function", v |-> 1] (a closure   *)
(*   with identity v), [t |-> "object", ...] (a VNode),                    *)
(*   [t |-> "map", kv |-> <<...>>] (an Attributes object: its entries in   *)
(*   insertion order).  Attribute names are sequences of characters.       *)
(***************************************************************************)
EXTENDS Integers, Sequences, FiniteSets, TLC

\* ------------------------------------------------------------------------
\* Bounds of the model
\* ------------------------------------------------------------------------
MaxAttrs == 2
MaxKids == 2
MaxDispatch == 4

\* ------------------------------------------------------------------------
\* JavaScript values
\* ------------------------------------------------------------------------
Undefined == [t |-> "undefined"]
Null == [t |-> "null"]
Num(n) == [t |-> "number", v |-> n]
Str(s) == [t |-> "string", v |-> s]
Fn(i) == [t |-> "function", v |-> i]

\* typeof x ("object" for a VNode)
TypeOf(x) == x.t

\* x === y for primitives and closures
StrictEq(x, y) ==
  /\ x.t = y.t
  /\ IF x.t \in {"number", "string", "function"} THEN x.v = y.v ELSE TRUE

\* !x for a node: undefined, 0 and "" are falsy
Falsy(x) ==
  \/ x.t = "undefined"
  \/ x.t = "null"
  \/ (x.t = "number" /\ x.v = 0)
  \/ (x.t = "string" /\ x.v = "")

\* String(x) of a leaf: node.toString()
NumToString(n) ==
  CASE n = 0 -> "0" [] n = 1 -> "1" [] n = 2 -> "2" [] n = 3 -> "3"
    [] n = 4 -> "4" [] n = 5 -> "5" [] OTHER -> "many"

toString(x) == IF x.t = "number" THEN NumToString(x.v) ELSE x.v

\* attribute names
aClass == <<"c", "l", "a", "s", "s">>
aValue == <<"v", "a", "l", "u", "e">>
aType == <<"t", "y", "p", "e">>
aOnclick == <<"o", "n", "c", "l", "i", "c", "k">>

Map(kv) == [t |-> "map", kv |-> kv]
Entry(k, val) == [k |-> k, val |-> val]

\* for (let attribute in attributes): nothing for null and undefined
Entries(attributes) == IF attributes.t = "map" THEN attributes.kv ELSE <<>>

\* attributes?.value and attributes[name]
GetAttr(attributes, name) ==
  LET kv == Entries(attributes)
      hit == {i \in 1..Len(kv) : kv[i].k = name}
  IN IF hit = {} THEN Undefined ELSE kv[CHOOSE i \in hit : TRUE].val

\* h(nodeName, attributes, ...children)
h(nodeName, attributes, children) ==
  [t |-> "object", nodeName |-> nodeName, attributes |-> attributes,
   children |-> children]

isVNode(node) == TypeOf(node) # "string" /\ TypeOf(node) # "number"

isEventAttr(attribute) ==
  Len(attribute) >= 2 /\ attribute[1] = "o" /\ attribute[2] = "n"

\* attribute.slice(2)
EventName(attribute) == SubSeq(attribute, 3, Len(attribute))

\* JSON.stringify(attributes): "null" for null, undefined for undefined; of an
\* object the string-valued entries in insertion order, function-valued
\* entries left out.  The text is represented by its sequence of members.
JSONStringify(attributes) ==
  IF attributes.t = "map"
  THEN [t |-> "string",
        v |-> [lit |-> "{}",
               members |-> SelectSeq(attributes.kv, LAMBDA e : e.val.t = "string")]]
  ELSE IF attributes.t = "null"
  THEN [t |-> "string", v |-> [lit |-> "null", members |-> <<>>]]
  ELSE Undefined

JSONEq(x, y) == x.t = y.t /\ (x.t = "string" => x.v = y.v)

\* ------------------------------------------------------------------------
\* Difference detection (view.ts, detectVirtualDOMDifference)
\* ------------------------------------------------------------------------
\* enum ChangedType
None == "None"
Type == "Type"
Text == "Text"
Node == "Node"
Value == "Value"
Attr == "Attr"
ChangedType == {None, Type, Text, Node, Value, Attr}

\* what a call yields when it throws
TypeError == "TypeError"

\* oldNode.attributes?.value of a VNode
ValueOf(node) == GetAttr(node.attributes, aValue)

\* detectVirtualDOMDifference with the attribute comparison placed before the
\* comparison of "value"
detectAttrBeforeValue(oldNode, newNode) ==
  IF TypeOf(oldNode) # TypeOf(newNode) THEN Type
  ELSE IF ~isVNode(oldNode) /\ ~StrictEq(oldNode, newNode) THEN Text
  ELSE IF isVNode(oldNode) /\ isVNode(newNode)
  THEN IF TypeOf(oldNode) = "undefined" THEN TypeError
       ELSE IF oldNode.nodeName # newNode.nodeName THEN Node
       ELSE IF ~JSONEq(JSONStringify(oldNode.attributes),
                       JSONStringify(newNode.attributes)) THEN Attr
       ELSE IF ~StrictEq(ValueOf(oldNode), ValueOf(newNode)) THEN Value
       ELSE None
  ELSE None

\* detectVirtualDOMDifference with attributes.value read without the optional
\* chaining: null or undefined attributes throw
detectWithoutOptionalChaining(oldNode, newNode) ==
  IF TypeOf(oldNode) # TypeOf(newNode) THEN Type
  ELSE IF ~isVNode(oldNode) /\ ~StrictEq(oldNode, newNode) THEN Text
  ELSE IF isVNode(oldNode) /\ isVNode(newNode)
  THEN IF TypeOf(oldNode) = "undefined" THEN TypeError
       ELSE IF oldNode.nodeName # newNode.nodeName THEN Node
       ELSE IF oldNode.attributes.t # "map" \/ newNode.attributes.t # "map"
       THEN TypeError
       ELSE IF ~StrictEq(ValueOf(oldNode), ValueOf(newNode)) THEN Value
       ELSE IF ~JSONEq(JSONStringify(oldNode.attributes),
                       JSONStringify(newNode.attributes)) THEN Attr
       ELSE None
  ELSE None

detectVirtualDOMDifference(oldNode, newNode) ==
  IF TypeOf(oldNode) # TypeOf(newNode) THEN Type
  ELSE IF ~isVNode(oldNode) /\ ~StrictEq(oldNode, newNode) THEN Text
  ELSE IF isVNode(oldNode) /\ isVNode(newNode)
  THEN IF TypeOf(oldNode) = "undefined" THEN TypeError
       ELSE IF oldNode.nodeName # newNode.nodeName THEN Node
       ELSE IF ~StrictEq(ValueOf(oldNode), ValueOf(newNode)) THEN Value
       ELSE IF ~JSONEq(JSONStringify(oldNode.attributes),
                       JSONStringify(newNode.attributes)) THEN Attr
       ELSE None
  ELSE None

\* ------------------------------------------------------------------------
\* The native tree.  A native node is a record with an identity (id), so that
\* replacing a node and updating it in place are different outcomes.
\*   attrs      the native attributes, entries [k, val]
\*   listeners  the registered listeners, entries [k (event name), val]
\*   value      the value property as written by updateValue (Undefined: never
\*              written)
\*   data       the text of a text node
\* ------------------------------------------------------------------------
NUndefined ==
  [nodeType |-> "undefined", id |-> 0, tagName |-> "", attrs |-> <<>>,
   listeners |-> <<>>, value |-> Undefined, data |-> "", childNodes |-> <<>>]

\* document.createTextNode(data)
createTextNode(id, data) ==
  [nodeType |-> "text", id |-> id, tagName |-> "", attrs |-> <<>>,
   listeners |-> <<>>, value |-> Undefined, data |-> data, childNodes |-> <<>>]

\* document.createElement(tagName)
createNativeElement(id, tagName) ==
  [nodeType |-> "element", id |-> id, tagName |-> tagName, attrs |-> <<>>,
   listeners |-> <<>>, value |-> Undefined, data |-> "", childNodes |-> <<>>]

\* target.setAttribute(name, value)
setAttribute(target, name, val) ==
  IF \E i \in 1..Len(target.attrs) : target.attrs[i].k = name
  THEN [target EXCEPT !.attrs =
          [i \in 1..Len(target.attrs) |->
             IF target.attrs[i].k = name THEN Entry(name, val) ELSE target.attrs[i]]]
  ELSE [target EXCEPT !.attrs = Append(target.attrs, Entry(name, val))]

\* target.removeAttribute(name)
removeAttribute(target, name) ==
  [target EXCEPT !.attrs = SelectSeq(target.attrs, LAMBDA e : e.k # name)]

\* target.addEventListener(eventName, listener)
addEventListener(target, eventName, listener) ==
  [target EXCEPT !.listeners = Append(target.listeners, Entry(eventName, listener))]

\* setAttributes(target, attributes): the for-in loop from entry i on
RECURSIVE setAttributesFrom(_, _, _)
setAttributesFrom(target, kv, i) ==
  IF i > Len(kv) THEN target
  ELSE setAttributesFrom(
         IF isEventAttr(kv[i].k)
         THEN addEventListener(target, EventName(kv[i].k), kv[i].val)
         ELSE setAttribute(target, kv[i].k, kv[i].val),
         kv, i + 1)

setAttributes(target, attributes) == setAttributesFrom(target, Entries(attributes), 1)

\* sequence helpers for childNodes (index is 0-based as in the source)
RemoveAt(seq, index) ==
  SubSeq(seq, 1, index) \o SubSeq(seq, index + 2, Len(seq))

ReplaceAt(seq, index, x) == [seq EXCEPT ![index + 1] = x]

\* parent.childNodes[index]
ChildAt(parent, index) ==
  IF index + 1 \in 1..Len(parent.childNodes)
  THEN parent.childNodes[index + 1] ELSE NUndefined

\* createElement(node): the native node built and the next free identity.
\* Identities are handed out in creation order: the element, then its children.
RECURSIVE createElement(_, _)
RECURSIVE appendCreated(_, _, _, _)
appendCreated(element, children, i, next) ==
  IF i > Len(children) THEN [node |-> element, next |-> next]
  ELSE LET c == createElement(children[i], next)
       IN appendCreated([element EXCEPT !.childNodes = Append(@, c.node)],
                        children, i + 1, c.next)

createElement(node, next) ==
  IF ~isVNode(node)
  THEN [node |-> createTextNode(next, toString(node)), next |-> next + 1]
  ELSE appendCreated(
         setAttributes(createNativeElement(next, node.nodeName), node.attributes),
         node.children, 1, next + 1)

\* ------------------------------------------------------------------------
\* The reconciler (view.ts, updateElement / updateAttributes / updateValue).
\* A call yields the parent as it leaves it, the next free identity, the
\* native operations it issued (in order) and err: "" or the error thrown.
\* An operation of the log: [op, node (identity of the receiver), name (an
\* attribute name), val (the argument), other (the child replaced)].
\* ------------------------------------------------------------------------
Op(op, node, name, val, other) ==
  [op |-> op, node |-> node, name |-> name, val |-> val, other |-> other]

Outcome(parent, next, log, err) ==
  [parent |-> parent, next |-> next, log |-> log, err |-> err]

NonEvent(attributes) == SelectSeq(Entries(attributes), LAMBDA e : ~isEventAttr(e.k))

\* the "remove attributes" loop of updateAttributes from entry i on
RECURSIVE removeAttributesFrom(_, _, _, _)
removeAttributesFrom(target, kv, i, log) ==
  IF i > Len(kv) THEN [target |-> target, log |-> log]
  ELSE removeAttributesFrom(
         removeAttribute(target, kv[i].k), kv, i + 1,
         Append(log, Op("removeAttribute", target.id, kv[i].k, Undefined, 0)))

\* the "set attributes" loop of updateAttributes from entry i on
RECURSIVE setNewAttributesFrom(_, _, _, _)
setNewAttributesFrom(target, kv, i, log) ==
  IF i > Len(kv) THEN [target |-> target, log |-> log]
  ELSE setNewAttributesFrom(
         setAttribute(target, kv[i].k, kv[i].val), kv, i + 1,
         Append(log, Op("setAttribute", target.id, kv[i].k, kv[i].val, 0)))

\* updateAttributes without its "remove attributes" loop
updateAttributesWithoutRemove(target, oldAttributes, newAttributes, log) ==
  IF target.nodeType # "element"
  THEN [target |-> target, log |-> log,
        err |-> IF NonEvent(newAttributes) = <<>> THEN "" ELSE TypeError]
  ELSE LET w == setNewAttributesFrom(target, NonEvent(newAttributes), 1, log)
       IN [target |-> w.target, log |-> w.log, err |-> ""]

\* updateAttributes without the isEventAttr test of its "set attributes"
\* loop: event attributes of the new mapping are registered as listeners
updateAttributesWithEvents(target, oldAttributes, newAttributes, log) ==
  IF target.nodeType # "element"
  THEN [target |-> target, log |-> log,
        err |-> IF NonEvent(oldAttributes) \o NonEvent(newAttributes) = <<>>
                THEN "" ELSE TypeError]
  ELSE LET r == removeAttributesFrom(target, NonEvent(oldAttributes), 1, log)
           w == setNewAttributesFrom(r.target, NonEvent(newAttributes), 1, r.log)
       IN [target |-> setAttributesFrom(
                        w.target,
                        SelectSeq(Entries(newAttributes),
                                  LAMBDA e : isEventAttr(e.k)), 1),
           log |-> w.log, err |-> ""]

\* updateAttributes(target, oldAttributes, newAttributes).  A target that is
\* undefined or a text node has no removeAttribute/setAttribute: the first
\* non-event attribute met throws.
updateAttributes(target, oldAttributes, newAttributes, log) ==
  IF target.nodeType # "element"
  THEN [target |-> target, log |-> log,
        err |-> IF NonEvent(oldAttributes) \o NonEvent(newAttributes) = <<>>
                THEN "" ELSE TypeError]
  ELSE LET r == removeAttributesFrom(target, NonEvent(oldAttributes), 1, log)
           w == setNewAttributesFrom(r.target, NonEvent(newAttributes), 1, r.log)
       IN [target |-> w.target, log |-> w.log, err |-> ""]

\* updateValue(target, newValue): target.value = newValue
updateValue(target, newValue) == [target EXCEPT !.value = newValue]

\* (newNode as VNode).attributes?.value, also of a leaf (undefined then)
NewValue(newNode) ==
  IF TypeOf(newNode) = "object" THEN ValueOf(newNode) ELSE Undefined

\* children[i] with i 0-based; undefined beyond the end
ChildOf(node, i) ==
  IF i + 1 \in 1..Len(node.children) THEN node.children[i + 1] ELSE Undefined

RECURSIVE updateElement(_, _, _, _, _, _)
RECURSIVE updateChildren(_, _, _, _, _, _)

\* the child loop of updateElement, from position i on, on the native target
updateChildren(target, oldNode, newNode, i, next, log) ==
  IF ~(i < Len(newNode.children) \/ i < Len(oldNode.children))
  THEN Outcome(target, next, log, "")
  ELSE LET r == updateElement(target, ChildOf(oldNode, i), ChildOf(newNode, i),
                              i, next, log)
       IN IF r.err # "" THEN r
          ELSE updateChildren(r.parent, oldNode, newNode, i + 1, r.next, r.log)

updateElement(parent, oldNode, newNode, index, next, log) ==
  IF TypeOf(oldNode) = "undefined"
  THEN \* parent.appendChild(createElement(newNode))
       IF parent.nodeType = "undefined" \/ TypeOf(newNode) = "undefined"
       THEN Outcome(parent, next, log, TypeError)
       ELSE LET c == createElement(newNode, next)
            IN IF parent.nodeType = "text"
               THEN Outcome(parent, c.next, log, "HierarchyRequestError")
               ELSE Outcome([parent EXCEPT !.childNodes = Append(@, c.node)], c.next,
                            Append(log, Op("appendChild", parent.id, <<>>,
                                           Num(c.node.id), 0)), "")
  ELSE IF parent.nodeType = "undefined"
  THEN Outcome(parent, next, log, TypeError)
  ELSE LET target == ChildAt(parent, index)
       IN
  IF Falsy(newNode)
  THEN \* parent.removeChild(target)
       IF target.nodeType = "undefined"
       THEN Outcome(parent, next, log, TypeError)
       ELSE Outcome([parent EXCEPT !.childNodes = RemoveAt(@, index)], next,
                    Append(log, Op("removeChild", parent.id, <<>>,
                                   Num(target.id), 0)), "")
  ELSE LET changeType == detectVirtualDOMDifference(oldNode, newNode)
       IN
  IF changeType \in {Type, Text, Node}
  THEN \* parent.replaceChild(createElement(newNode), target), then the
       \* fall-through into case Value: updateValue on the replaced target
       LET c == createElement(newNode, next)
       IN IF target.nodeType = "undefined"
          THEN Outcome(parent, c.next, log, TypeError)
          ELSE Outcome([parent EXCEPT !.childNodes = ReplaceAt(@, index, c.node)],
                       c.next,
                       log \o <<Op("replaceChild", parent.id, <<>>,
                                   Num(c.node.id), target.id),
                                Op("setValue", target.id, aValue,
                                   NewValue(newNode), 0)>>, "")
  ELSE IF changeType = Value
  THEN IF target.nodeType = "undefined"
       THEN Outcome(parent, next, log, TypeError)
       ELSE Outcome([parent EXCEPT !.childNodes =
                       ReplaceAt(@, index, updateValue(target, NewValue(newNode)))],
                    next,
                    Append(log, Op("setValue", target.id, aValue,
                                   NewValue(newNode), 0)), "")
  ELSE IF changeType = Attr
  THEN LET u == updateAttributes(target, oldNode.attributes, newNode.attributes, log)
       IN Outcome(IF target.nodeType = "undefined" THEN parent
                  ELSE [parent EXCEPT !.childNodes = ReplaceAt(@, index, u.target)],
                  next, u.log, u.err)
  ELSE IF isVNode(oldNode) /\ isVNode(newNode)
  THEN LET r == updateChildren(target, oldNode, newNode, 0, next, log)
       IN Outcome(IF target.nodeType = "undefined" THEN parent
                  ELSE [parent EXCEPT !.childNodes = ReplaceAt(@, index, r.parent)],
                  r.next, r.log, r.err)
  ELSE Outcome(parent, next, log, "")

\* the variants of a node
Present(node) == node.t # "undefined"
IsLeaf(node) == node.t \in {"string", "number"}
IsElement(node) == node.t = "object"

\* ------------------------------------------------------------------------
\* Input universes
\* ------------------------------------------------------------------------
Tags == {"div", "input"}

AttrEntries ==
  {Entry(aClass, Str("a")), Entry(aClass, Str("b")),
   Entry(aValue, Str("a")), Entry(aValue, Str("b")),
   Entry(aOnclick, Fn(1)), Entry(aOnclick, Fn(2))}

\* the key/value sequences of an object: no key twice
DistinctKeys(kv) == \A i, j \in 1..Len(kv) : kv[i].k = kv[j].k => i = j

AttrSeqs(n) ==
  {kv \in UNION {[1..k -> AttrEntries] : k \in 0..n} : DistinctKeys(kv)}

\* attribute arguments of h(): undefined, null or an object
AllAttributes == {Undefined, Null} \cup {Map(kv) : kv \in AttrSeqs(MaxAttrs)}

Leaves == {Num(0), Num(1), Str(""), Str("a")}

\* the nodes classified: absent, a leaf or an element
ClassifyNodes ==
  {Undefined} \cup Leaves \cup {h(tag, a, <<>>) : tag \in Tags, a \in AllAttributes}

\* attribute arguments of the trees reconciled
RAttrs ==
  {Null,
   Map(<<Entry(aClass, Str("a"))>>),
   Map(<<Entry(aClass, Str("b"))>>),
   Map(<<Entry(aValue, Str("a")), Entry(aClass, Str("a"))>>),
   Map(<<Entry(aValue, Str("a")), Entry(aClass, Str("b"))>>),
   Map(<<Entry(aValue, Str("b")), Entry(aClass, Str("b"))>>),
   Map(<<Entry(aClass, Str("a")), Entry(aOnclick, Fn(1))>>),
   Map(<<Entry(aClass, Str("a")), Entry(aOnclick, Fn(2))>>)}

\* children of the trees reconciled: leaves and a nested element
RKids == {Num(0), Str("a"), h("p", Null, <<Str("a")>>)}

KidSeqs(n) == UNION {[1..k -> RKids] : k \in 0..n}

\* the trees reconciled: absent, a leaf, or an element with up to MaxKids
\* children
RNodes ==
  {Undefined} \cup Leaves
    \cup {h(tag, a, kids) : tag \in Tags, a \in RAttrs, kids \in KidSeqs(MaxKids)}

\* the old trees: the code only compares tags, so one tag on the old side
\* gives every outcome of the comparison
ROldNodes == {n \in RNodes : IsElement(n) => n.nodeName = "div"}

RIndexes == {0, 1}

\* ------------------------------------------------------------------------
\* The application handed to new App(...): its state, actions and view.
\* "counter" is the application of index.ts; "list" renders state.count
\* items; "reset" and "fail" are further user actions (fail throws after
\* changing the state).
\* ------------------------------------------------------------------------
Views == {"counter", "list"}
ActionNames == {"increment", "reset", "fail"}

\* the state of index.ts
InitialState == [count |-> 0]

\* what the user action does to the state
ActionEffect(a, st) ==
  IF a = "reset" THEN [st EXCEPT !.count = 0]
  ELSE [st EXCEPT !.count = @ + 1]

\* whether the user action throws
ActionThrows(a) == a = "fail"

\* view(state, actions); closure is the identity of the closures this call
\* creates
View(v, st, closure) ==
  IF v = "counter"
  THEN h("div", Null,
         <<h("p", Null, <<Num(st.count)>>),
           h("button",
             Map(<<Entry(aType, Str("button")), Entry(aOnclick, Fn(closure))>>),
             <<Str("count up")>>)>>)
  ELSE h("ul", Null, [i \in 1..st.count |-> Str("item")])

\* ------------------------------------------------------------------------
\* State
\* ------------------------------------------------------------------------
VARIABLES
  cOld, cNew, cResult,          \* a classification: its arguments and result
  rOld, rNew, rIndex,           \* a reconciliation: its arguments
  rOut, rDone,                  \* ... and its outcome
  view, state,                  \* App: the view chosen and this.state
  oldNode, newNode, skipRender, \* App: this.oldNode, this.newNode, this.skipRender
  timers,                       \* render callbacks queued by setTimeout
  element, nextId,              \* this.element (#app) and the next identity
  phase,                        \* "turn": synchronous code runs; "idle": between tasks
  resolved,                     \* calls of the view so far
  hist,                         \* the actions dispatched so far, in order
  batch,                        \* dispatches completed since the last render pass
  passes, lastPass              \* render passes run, and what the last one did

cvars == <<cOld, cNew, cResult>>
rvars == <<rOld, rNew, rIndex, rOut, rDone>>
avars == <<view, state, oldNode, newNode, skipRender, timers, element, nextId,
           phase, resolved, hist, batch, passes, lastPass>>
vars == <<cvars, rvars, avars>>

Pending == "pending"

NoPass ==
  [before |-> NUndefined, log |-> <<>>, err |-> "", K |-> 0,
   old |-> Undefined, flushed |-> Undefined]

\* the state new App({element, view, state, actions}) leaves: the wrapped
\* actions made, resolveNode() called once, the first render queued
Constructed(v) ==
  /\ view = v
  /\ state = InitialState
  /\ oldNode = Undefined
  /\ newNode = View(v, InitialState, 1)
  /\ skipRender = TRUE
  /\ timers = 1
  /\ element = createNativeElement(1, "div")
  /\ nextId = 2
  /\ phase = "turn"
  /\ resolved = 1
  /\ hist = <<>>
  /\ batch = 0
  /\ passes = 0
  /\ lastPass = NoPass

AppIdle == Constructed("counter")

ClassifyIdle == cOld = Undefined /\ cNew = Undefined /\ cResult = Pending

ReconcileIdle ==
  /\ rOld = Undefined /\ rNew = Undefined /\ rIndex = 0
  /\ rOut = Outcome(NUndefined, 1, <<>>, "")
  /\ rDone = FALSE

\* ------------------------------------------------------------------------
\* SpecClassify: detectVirtualDOMDifference applied to every pair of nodes
\* ------------------------------------------------------------------------
InitClassify ==
  /\ cOld \in ClassifyNodes
  /\ cNew \in ClassifyNodes
  /\ cResult = Pending
  /\ ReconcileIdle
  /\ AppIdle

Classify ==
  /\ cResult = Pending
  /\ cResult' = detectVirtualDOMDifference(cOld, cNew)
  /\ UNCHANGED <<cOld, cNew, rvars, avars>>

NextClassify == Classify

SpecClassify == InitClassify /\ [][NextClassify]_vars

\* ------------------------------------------------------------------------
\* Claims about the classification (SpecClassify)
\* ------------------------------------------------------------------------
Classified == cResult # Pending

\* an attribute mapping as a set of key/value pairs (absent and null: empty)
AttrSet(attributes) ==
  {<<Entries(attributes)[i].k, Entries(attributes)[i].val>> :
     i \in 1..Len(Entries(attributes))}

\* the attribute "value" of a mapping: {} when absent, else {its value}
ValueSet(attributes) == {p[2] : p \in {q \in AttrSet(attributes) : q[1] = aValue}}

\* two attribute mappings differ: one is absent or null and the other is not,
\* or they hold different key/value pairs
MappingsDiffer(a, b) == a.t # b.t \/ AttrSet(a) # AttrSet(b)

\* the classification order as the specification states it: the earliest
\* kind whose condition holds
FirstMatch(old, new) ==
  IF old.t # new.t THEN Type
  ELSE IF IsLeaf(old) THEN (IF old.v # new.v THEN Text ELSE None)
  ELSE IF old.nodeName # new.nodeName THEN Node
  ELSE IF ValueSet(old.attributes) # ValueSet(new.attributes) THEN Value
  ELSE IF MappingsDiffer(old.attributes, new.attributes) THEN Attr
  ELSE None

\* C6: for every pair of present nodes the classification is the earliest of
\* TypeChanged, TextChanged, TagChanged, ValueChanged, AttributesChanged whose
\* condition holds, and None only when none holds.
C6_FirstMatchOrder ==
  (Classified /\ Present(cOld) /\ Present(cNew))
    => cResult = FirstMatch(cOld, cNew)

C8_AttrSetComparison ==
  (/\ Classified /\ IsElement(cOld) /\ IsElement(cNew)
   /\ cOld.nodeName = cNew.nodeName
   /\ cOld.attributes.t = "map" /\ cNew.attributes.t = "map"
   /\ ValueSet(cOld.attributes) = ValueSet(cNew.attributes))
    => /\ (cResult = Attr <=> AttrSet(cOld.attributes) # AttrSet(cNew.attributes))
       /\ (cResult = None <=> AttrSet(cOld.attributes) = AttrSet(cNew.attributes))

\* ------------------------------------------------------------------------
\* SpecReconcile: updateElement(parent, oldNode, newNode, index) applied to
\* every pair of trees, on a parent whose child at index is
\* createElement(oldNode), with a sibling before it (index 1) and after it.
\* ------------------------------------------------------------------------
\* identities: the parent 1, the siblings 2 and 3, createElement(oldNode) from 4
FirstFree == 4

Materialized(old) == createElement(old, FirstFree)

Mount(old, index) ==
  [createNativeElement(1, "div") EXCEPT !.childNodes =
     (IF index = 1 THEN <<createTextNode(2, "before")>> ELSE <<>>)
     \o (IF Present(old) THEN <<Materialized(old).node>> ELSE <<>>)
     \o <<createTextNode(3, "after")>>]

\* the parent handed to updateElement
rParent == Mount(rOld, rIndex)

InitReconcile ==
  /\ ClassifyIdle
  /\ AppIdle
  /\ rOld \in ROldNodes
  /\ rNew \in RNodes
  /\ ~(rOld.t = "undefined" /\ rNew.t = "undefined")
  /\ rIndex \in RIndexes
  /\ rOut = Outcome(NUndefined, 1, <<>>, "")
  /\ rDone = FALSE

Reconcile ==
  /\ ~rDone
  /\ rOut' = updateElement(rParent, rOld, rNew, rIndex,
                           IF Present(rOld) THEN Materialized(rOld).next
                           ELSE FirstFree, <<>>)
  /\ rDone' = TRUE
  /\ UNCHANGED <<cvars, rOld, rNew, rIndex, avars>>

NextReconcile == Reconcile

SpecReconcile == InitReconcile /\ [][NextReconcile]_vars

\* ------------------------------------------------------------------------
\* Claims about one reconciliation (SpecReconcile)
\* ------------------------------------------------------------------------
\* the native child at the reconciled position, before and after
rBefore == ChildAt(rParent, rIndex)
rAfter == ChildAt(rOut.parent, rIndex)

\* the native attributes as a set of name/value pairs
NativeAttrSet(n) == {<<n.attrs[i].k, n.attrs[i].val>> : i \in 1..Len(n.attrs)}

\* the value a native node shows: the value property once written, else the
\* "value" attribute
ShownValue(n) ==
  IF n.value.t # "undefined" THEN {n.value}
  ELSE {p[2] : p \in {q \in NativeAttrSet(n) : q[1] = aValue}}

\* what is observable of a native subtree apart from identity and listeners:
\* tags, attributes, value, text, number and order of children
RECURSIVE Shape(_)
Shape(n) ==
  [nodeType |-> n.nodeType, tagName |-> n.tagName, attrs |-> NativeAttrSet(n),
   value |-> ShownValue(n), data |-> n.data,
   childNodes |-> [i \in 1..Len(n.childNodes) |-> Shape(n.childNodes[i])]]

\* C2: if the native child at index is createElement(old), then after
\* updateElement(parent, old, new, index) completes it has the shape of
\* createElement(new).
C2_Converges ==
  (rDone /\ Present(rOld) /\ Present(rNew) /\ rOut.err = "")
    => Shape(rAfter) = Shape(createElement(rNew, 1).node)

\* C3: reconciling a tree against itself issues no native operation.
C3_Idempotent ==
  (rDone /\ Present(rOld) /\ rOld = rNew)
    => rOut.log = <<>> /\ rOut.err = ""

SameTagElements ==
  /\ IsElement(rOld) /\ IsElement(rNew)
  /\ rOld.nodeName = rNew.nodeName

\* C4: two elements with the same tag and a different "value" attribute are
\* classified ValueChanged, and the one native operation is the write of the
\* new value to the value property of the existing node: nothing else of the
\* parent's subtree changes.
C4_ValuePriority ==
  (rDone /\ SameTagElements
   /\ ValueSet(rOld.attributes) # ValueSet(rNew.attributes))
    => /\ detectVirtualDOMDifference(rOld, rNew) = Value
       /\ rOut.err = ""
       /\ rOut.log = <<Op("setValue", rBefore.id, aValue, NewValue(rNew), 0)>>
       /\ rOut.parent =
            [rParent EXCEPT !.childNodes[rIndex + 1].value = NewValue(rNew)]
       /\ rOut.next = Materialized(rOld).next

\* C4 witness: a value change together with a change of another attribute and
\* of the children, at index 1.
C4_Witness ==
  /\ rDone /\ SameTagElements /\ rIndex = 1
  /\ rOld.attributes = Map(<<Entry(aValue, Str("a")), Entry(aClass, Str("a"))>>)
  /\ rNew.attributes = Map(<<Entry(aValue, Str("b")), Entry(aClass, Str("b"))>>)
  /\ Len(rOld.children) = 2 /\ Len(rNew.children) = 1
  /\ rAfter.value = Str("b")

\* C5: where the child loop runs and the new child list is a proper prefix of
\* the old one (length n < m), the loop completes and leaves exactly the first
\* n native children, untouched.
C5_ShrinkRemovesTail ==
  (/\ rDone /\ SameTagElements
   /\ detectVirtualDOMDifference(rOld, rNew) = None
   /\ Len(rNew.children) < Len(rOld.children)
   /\ \A i \in 1..Len(rNew.children) :
        rNew.children[i] = rOld.children[i] /\ ~Falsy(rNew.children[i]))
    => /\ rOut.err = ""
       /\ rAfter.childNodes = SubSeq(rBefore.childNodes, 1, Len(rNew.children))

AttrsDiffer(a, b) == a.t # b.t \/ (a.t = "map" /\ a.kv # b.kv)

\* C9: for two elements with the same tag and the same "value" attribute whose
\* attribute mappings differ, the native node keeps its identity and its
\* attributes become exactly the non-event entries of the new mapping.
C9_AttributesResult ==
  (/\ rDone /\ SameTagElements
   /\ ValueSet(rOld.attributes) = ValueSet(rNew.attributes)
   /\ AttrsDiffer(rOld.attributes, rNew.attributes))
    => /\ rAfter.id = rBefore.id
       /\ rAfter.nodeType = "element"
       /\ rAfter.tagName = rBefore.tagName
       /\ NativeAttrSet(rAfter) =
            {<<e[1], e[2]>> : e \in {q \in AttrSet(rNew.attributes) :
                                       ~isEventAttr(q[1])}}
       /\ detectVirtualDOMDifference(rOld, rNew) = Attr => rOut.err = ""

\* C9 witness: class "a" became "b" beside an unchanged "value", and the node
\* is the one that was there.
C9_Witness ==
  /\ rDone /\ SameTagElements
  /\ rOld.attributes = Map(<<Entry(aValue, Str("a")), Entry(aClass, Str("a"))>>)
  /\ rNew.attributes = Map(<<Entry(aValue, Str("a")), Entry(aClass, Str("b"))>>)
  /\ rAfter.id = rBefore.id
  /\ <<aClass, Str("b")>> \in NativeAttrSet(rAfter)

\* ------------------------------------------------------------------------
\* Spec: the App of view.ts on the event loop.  Synchronous code (the script
\* that constructs the App, an event handler) runs in a turn, during which
\* wrapped actions are dispatched; the render callback queued by setTimeout
\* runs as a task of its own between turns.
\* ------------------------------------------------------------------------
Init ==
  /\ ClassifyIdle
  /\ ReconcileIdle
  /\ \E v \in Views : Constructed(v)

\* scheduleRender(): skipRender and the timer queue after the call
scheduleRender(skip, queued) ==
  IF ~skip THEN [skipRender |-> TRUE, timers |-> queued + 1]
  ELSE [skipRender |-> skip, timers |-> queued]

\* a wrapped action with resolveNode() in a finally block: the view is called
\* and a render scheduled also when the user action throws
DispatchResolvesAlways(a) ==
  /\ Len(hist) < MaxDispatch
  /\ phase' = "turn"
  /\ hist' = Append(hist, a)
  /\ state' = ActionEffect(a, state)
  /\ newNode' = View(view, state', resolved + 1)
  /\ resolved' = resolved + 1
  /\ skipRender' = scheduleRender(skipRender, timers).skipRender
  /\ timers' = scheduleRender(skipRender, timers).timers
  /\ batch' = batch + 1
  /\ UNCHANGED <<view, oldNode, element, nextId, passes, lastPass, cvars, rvars>>

\* a wrapped action called: the user action, then resolveNode() (the view,
\* then scheduleRender()); a throwing user action ends the call before
\* resolveNode()
Dispatch(a) ==
  /\ Len(hist) < MaxDispatch
  /\ phase' = "turn"
  /\ hist' = Append(hist, a)
  /\ state' = ActionEffect(a, state)
  /\ IF ActionThrows(a)
     THEN UNCHANGED <<newNode, resolved, skipRender, timers, batch>>
     ELSE /\ newNode' = View(view, state', resolved + 1)
          /\ resolved' = resolved + 1
          /\ skipRender' = scheduleRender(skipRender, timers).skipRender
          /\ timers' = scheduleRender(skipRender, timers).timers
          /\ batch' = batch + 1
  /\ UNCHANGED <<view, oldNode, element, nextId, passes, lastPass, cvars, rvars>>

\* the synchronous code of the turn returns
EndTurn ==
  /\ phase = "turn"
  /\ phase' = "idle"
  /\ UNCHANGED <<view, state, oldNode, newNode, skipRender, timers, element,
                 nextId, resolved, hist, batch, passes, lastPass, cvars, rvars>>

\* render() with the test of oldNode lost: every pass mounts newNode anew
renderPassAlwaysMount(mount, old, new, next) ==
  LET c == createElement(new, next)
  IN Outcome([mount EXCEPT !.childNodes = Append(@, c.node)], c.next,
             <<Op("appendChild", mount.id, <<>>, Num(c.node.id), 0)>>, "")

\* what render() does to the native tree: the reconciler when there is an
\* oldNode, else the first mount
renderPass(mount, old, new, next) ==
  IF Present(old)
  THEN updateElement(mount, old, new, 0, next, <<>>)
  ELSE LET c == createElement(new, next)
       IN Outcome([mount EXCEPT !.childNodes = Append(@, c.node)], c.next,
                  <<Op("appendChild", mount.id, <<>>, Num(c.node.id), 0)>>, "")

\* render() without the assignment this.oldNode = this.newNode
RenderKeepsOldNode ==
  /\ phase = "idle"
  /\ timers > 0
  /\ timers' = timers - 1
  /\ LET r == renderPass(element, oldNode, newNode, nextId)
     IN /\ element' = r.parent
        /\ nextId' = r.next
        /\ lastPass' = [before |-> element, log |-> r.log, err |-> r.err,
                        K |-> batch, old |-> oldNode, flushed |-> newNode]
        /\ IF r.err = ""
           THEN skipRender' = FALSE
           ELSE UNCHANGED skipRender
  /\ oldNode' = oldNode
  /\ passes' = passes + 1
  /\ batch' = 0
  /\ UNCHANGED <<view, state, newNode, phase, resolved, hist, cvars, rvars>>

\* render() called by scheduleRender() directly instead of through setTimeout:
\* the pass runs inside the turn that scheduled it
RenderDuringTurn ==
  /\ timers > 0
  /\ timers' = timers - 1
  /\ LET r == renderPass(element, oldNode, newNode, nextId)
     IN /\ element' = r.parent
        /\ nextId' = r.next
        /\ lastPass' = [before |-> element, log |-> r.log, err |-> r.err,
                        K |-> batch, old |-> oldNode, flushed |-> newNode]
        /\ IF r.err = ""
           THEN oldNode' = newNode /\ skipRender' = FALSE
           ELSE UNCHANGED <<oldNode, skipRender>>
  /\ passes' = passes + 1
  /\ batch' = 0
  /\ UNCHANGED <<view, state, newNode, phase, resolved, hist, cvars, rvars>>

\* the timer fires: render().  An error thrown by the reconciler ends the
\* callback before oldNode and skipRender are assigned.
Render ==
  /\ phase = "idle"
  /\ timers > 0
  /\ timers' = timers - 1
  /\ LET r == renderPass(element, oldNode, newNode, nextId)
     IN /\ element' = r.parent
        /\ nextId' = r.next
        /\ lastPass' = [before |-> element, log |-> r.log, err |-> r.err,
                        K |-> batch, old |-> oldNode, flushed |-> newNode]
        /\ IF r.err = ""
           THEN oldNode' = newNode /\ skipRender' = FALSE
           ELSE UNCHANGED <<oldNode, skipRender>>
  /\ passes' = passes + 1
  /\ batch' = 0
  /\ UNCHANGED <<view, state, newNode, phase, resolved, hist, cvars, rvars>>

Next ==
  \/ \E a \in ActionNames : Dispatch(a)
  \/ EndTurn
  \/ Render

Spec == Init /\ [][Next]_vars

\* ------------------------------------------------------------------------
\* Claims about the App (Spec)
\* ------------------------------------------------------------------------
LastDispatchCompleted == hist # <<>> /\ ~ActionThrows(hist[Len(hist)])

\* C1: K >= 1 actions dispatched and not yet rendered have exactly one render
\* pass ahead of them (one callback queued, never K), and the tree that pass
\* will flush is the view of the state after the last of them; once the pass
\* has run, the tree flushed is that view and no further pass is queued.
C1_Coalescing ==
  /\ timers <= 1
  /\ (batch >= 1 /\ LastDispatchCompleted)
       => /\ timers = 1
          /\ newNode = View(view, state, resolved)
  /\ (batch = 0 /\ passes >= 1 /\ lastPass.K >= 1 /\ LastDispatchCompleted)
       => /\ timers = 0
          /\ oldNode = View(view, state, resolved)

\* the counter application after its mount and one dispatch of increment
ScenarioA == view = "counter" /\ hist = <<"increment">> /\ passes >= 1

ScenarioADispatched == ScenarioA /\ passes = 1 /\ batch = 1

ScenarioARendered == ScenarioA /\ passes = 2

\* the native tree the counter application mounts at count 0:
\* #app(1) > div(2) > [p(3) > "0"(4), button(5) > "count up"(6)]
MountedCounter ==
  [createNativeElement(1, "div") EXCEPT !.childNodes =
     <<createElement(View("counter", InitialState, 1), 2).node>>]

\* C10 as stated: the pass after one increment replaces no native node, the
\* text node under p included.
C10_NoNodeReplaced ==
  ScenarioARendered =>
    /\ element.childNodes[1].childNodes[1].childNodes[1].data = "1"
    /\ element.childNodes[1].childNodes[1].childNodes[1].id =
         lastPass.before.childNodes[1].childNodes[1].childNodes[1].id
    /\ \A i \in 1..Len(lastPass.log) : lastPass.log[i].op # "replaceChild"

\* C10 as amended: from the mounted tree div(p("0"), button) one increment
\* gives count 1 and exactly one reconciliation pass; the pass replaces the
\* text node under p by a new text node "1" and nothing else: div, p, button
\* and the button's text, attributes and listener are the ones mounted.
C10_ScenarioA ==
  /\ (view = "counter" /\ hist = <<"increment">>)
       => state.count = 1 /\ passes <= 2
  /\ ScenarioADispatched
       => timers = 1 /\ skipRender /\ element = MountedCounter
  /\ ScenarioARendered
       => /\ timers = 0 /\ ~skipRender
          /\ lastPass.K = 1 /\ lastPass.err = ""
          /\ lastPass.before = MountedCounter
          /\ element =
               [MountedCounter EXCEPT
                  !.childNodes[1].childNodes[1].childNodes[1] =
                     createTextNode(7, "1")]
          /\ lastPass.log =
               <<Op("replaceChild", 3, <<>>, Num(7), 4),
                 Op("setValue", 4, aValue, Undefined, 0)>>

\* C10 witness: the pass after the increment has run and p reads "1".
C10_Witness ==
  /\ ScenarioARendered
  /\ state.count = 1
  /\ element.childNodes[1].childNodes[1].childNodes[1].data = "1"
  /\ element.childNodes[1].childNodes[2].listeners = <<Entry(<<"c", "l", "i", "c", "k">>, Fn(1))>>

\* the dispatch a step makes, if any
Dispatched == Len(hist') = Len(hist) + 1

LastAction == hist'[Len(hist')]

\* C11: a dispatch whose user action throws leaves the state as the action
\* changed it and nothing else: resolveNode() is not called (no call of the
\* view), newNode and skipRender stay what they were, no render callback is
\* queued, and oldNode and the native tree stay.
C11_ActionFailure ==
  [][(Dispatched /\ ActionThrows(LastAction))
       => /\ state' = ActionEffect(LastAction, state)
          /\ UNCHANGED <<newNode, skipRender, timers, resolved, oldNode,
                         element, passes, batch>>]_vars

\* C11 witness: after the mount, the failing action has been dispatched: the
\* state changed, newNode is still the view of the initial state and nothing
\* is scheduled.
C11_Witness ==
  /\ hist = <<"fail">> /\ passes = 1
  /\ state.count = 1
  /\ newNode = View(view, InitialState, 1) /\ resolved = 1
  /\ ~skipRender /\ timers = 0

\* C12: no sequence of dispatches and render passes leaves skipRender stuck
\* at true with no render callback outstanding: while skipRender is true a
\* callback is queued, whose run sets it to false again.
C12_NoStuckPending == skipRender => timers >= 1

\* ------------------------------------------------------------------------
\* Further claims about one reconciliation (SpecReconcile)
\* ------------------------------------------------------------------------
\* child lists on which the child loop, where it runs, completes and
\* converges: no falsy leaf among the new children, and at most one child
\* fewer than before
PlainChildren ==
  /\ \A i \in 1..Len(rNew.children) : ~Falsy(rNew.children[i])
  /\ Len(rOld.children) <= Len(rNew.children) + 1

\* the children of the native node at the reconciled position are those
\* createElement(new) would have
ChildrenReconciled ==
  /\ rOut.err = ""
  /\ Shape(rAfter).childNodes = Shape(createElement(rNew, 1).node).childNodes

\* C13: at a position classified AttributesChanged the child positions
\* 0 .. max(len(oldChildren), len(newChildren)) - 1 are reconciled after the
\* attribute update: the native children become those of the new element.
C13_AttrRecursesIntoChildren ==
  (/\ rDone /\ SameTagElements /\ PlainChildren
   /\ detectVirtualDOMDifference(rOld, rNew) = Attr)
    => ChildrenReconciled

\* the position is classified TypeChanged, TextChanged or TagChanged
Replaced ==
  /\ Present(rOld) /\ ~Falsy(rNew)
  /\ detectVirtualDOMDifference(rOld, rNew) \in {Type, Text, Node}

\* C14: at a position classified TypeChanged, TextChanged or TagChanged the
\* reconciler issues exactly one native operation, the replacement of the
\* native child at index by createElement(new): no write of the value
\* property on the old or the new native node, no recursion into children.
C14_ReplacementOnly ==
  (rDone /\ Replaced)
    => /\ rOut.err = ""
       /\ rAfter = createElement(rNew, Materialized(rOld).next).node
       /\ rOut.log = <<Op("replaceChild", rParent.id, <<>>, Num(rAfter.id),
                          rBefore.id)>>

\* the call removed a native child of the parent
RemovedFromParent ==
  \E i \in 1..Len(rOut.log) :
    rOut.log[i].op = "removeChild" /\ rOut.log[i].node = rParent.id

\* C15: updateElement on an existing position removes the native child at
\* index exactly when the new tree has no node there; for every present new
\* node, element or leaf of any value, the parent keeps its number of native
\* children.
C15_RemovalOnlyWhenAbsent ==
  (rDone /\ Present(rOld))
    => /\ RemovedFromParent <=> ~Present(rNew)
       /\ Present(rNew) =>
            Len(rOut.parent.childNodes) = Len(rParent.childNodes)

\* the nodes of a native subtree: of each its identity, kind, tag and
\* listeners
RECURSIVE NativeNodes(_)
NativeNodes(n) ==
  {[id |-> n.id, nodeType |-> n.nodeType, tagName |-> n.tagName,
    listeners |-> n.listeners]}
    \cup UNION {NativeNodes(n.childNodes[i]) : i \in 1..Len(n.childNodes)}

\* the nodes of a virtual tree
RECURSIVE VNodes(_)
VNodes(v) ==
  IF IsElement(v)
  THEN {v} \cup UNION {VNodes(v.children[i]) : i \in 1..Len(v.children)}
  ELSE {v}

\* one listener per event-prefixed attribute of a virtual element, in order
ListenersOf(v) ==
  LET ev == SelectSeq(Entries(v.attributes), LAMBDA e : isEventAttr(e.k))
  IN [i \in 1..Len(ev) |-> Entry(EventName(ev[i].k), ev[i].val)]

\* C16: a native node that survives the call has the listeners it had before
\* it; a node the call created was created for a node of the new tree and has
\* one listener per event-prefixed attribute of that node (none for a leaf).
C16_ListenersOnlyByMaterialization ==
  rDone =>
    LET before == NativeNodes(rParent)
        created == {n \in NativeNodes(rOut.parent) :
                      \A m \in before : m.id # n.id}
    IN /\ \A n \in NativeNodes(rOut.parent) \ created : n \in before
       /\ created # {} =>
            \A n \in created :
              \E v \in VNodes(rNew) :
                IF IsElement(v)
                THEN /\ n.nodeType = "element" /\ n.tagName = v.nodeName
                     /\ n.listeners = ListenersOf(v)
                ELSE n.nodeType = "text" /\ n.listeners = <<>>

\* C16 witness: a position classified AttributesChanged whose new mapping
\* brings an onclick callback: the node stays and gets no listener.
C16_Witness ==
  /\ rDone /\ SameTagElements
  /\ detectVirtualDOMDifference(rOld, rNew) = Attr
  /\ GetAttr(rOld.attributes, aOnclick) = Undefined
  /\ GetAttr(rNew.attributes, aOnclick) = Fn(1)
  /\ rAfter.id = rBefore.id
  /\ rAfter.listeners = <<>>

\* ------------------------------------------------------------------------
\* Further claims about the App (Spec)
\* ------------------------------------------------------------------------
\* the step is a render pass
Pass == passes' = passes + 1

\* C17: oldNode changes only in a render pass, at whose end it is the newNode
\* that pass flushed (a pass that throws leaves it); every other step leaves
\* it.  The first pass finds oldNode absent and appends createElement(newNode)
\* to the mount point; every later pass hands the reconciler the tree the
\* preceding pass flushed.
C17_RenderCycle ==
  [][/\ ~Pass => oldNode' = oldNode
     /\ Pass =>
          /\ lastPass'.err = "" => oldNode' = newNode
          /\ lastPass'.err # "" => oldNode' = oldNode
          /\ passes = 0 =>
               /\ oldNode = Undefined
               /\ lastPass'.err = ""
               /\ lastPass'.log =
                    <<Op("appendChild", element.id, <<>>, Num(nextId), 0)>>
               /\ element' =
                    [element EXCEPT !.childNodes =
                       <<createElement(newNode, nextId).node>>]
          /\ passes >= 1 =>
               /\ oldNode = lastPass.flushed
               /\ lastPass'.log =
                    updateElement(element, lastPass.flushed, newNode, 0,
                                  nextId, <<>>).log]_vars

\* C17 witness: the second pass has run: it was handed the tree of the mount
\* and oldNode now is the different tree it flushed.
C17_Witness ==
  /\ passes = 2 /\ lastPass.err = ""
  /\ lastPass.old = View(view, InitialState, 1)
  /\ lastPass.flushed # lastPass.old
  /\ oldNode = lastPass.flushed

\* C18: while synchronous code runs (the constructor's turn, a turn with
\* dispatches) and in every dispatch the native tree is not touched; the
\* native tree changes only in a render pass, which runs between turns as
\* the queued callback and in which no action runs.
C18_RenderDeferred ==
  [][/\ (phase = "turn" \/ Dispatched) => (element' = element /\ ~Pass)
     /\ Dispatched => phase' = "turn"
     /\ (Pass \/ element' # element) =>
          /\ Pass
          /\ phase = "idle" /\ phase' = "idle"
          /\ timers >= 1
          /\ ~Dispatched /\ state' = state /\ newNode' = newNode]_vars

\* C18 witness: two actions dispatched in a turn after the mount: a render
\* is queued, newNode is ahead of oldNode and the native tree still is the
\* mounted one.
C18_Witness ==
  /\ phase = "turn" /\ passes = 1 /\ batch = 2
  /\ timers = 1 /\ newNode # oldNode
  /\ element =
       [lastPass.before EXCEPT !.childNodes =
          <<createElement(lastPass.flushed, 2).node>>]

\* C19: at most one render callback is queued, and skipRender is true
\* exactly while one is queued and has not yet run to its end.
C19_SingleOutstanding ==
  /\ timers <= 1
  /\ skipRender <=> timers = 1

====
